---- MODULE Spec2Model ----
(***************************************************************************)
(* Model of src/src/components/XPLeaderboard.tsx: the XPLeaderboard React  *)
(* component seen as a state machine.  The component state (useState       *)
(* cells), the closures of its effects, its two timers and the operations  *)
(* in flight (fetchLeaderboard calls, updateXPData cycles) are the         *)
(* variables; one action per event the JavaScript event loop can deliver.  *)
(*                                                                         *)
(* Time: one Tick is one second (the debounce is 2000 ms, the staleness    *)
(* delay 3000 ms).  Record timestamps are in hours; HoursSince is taken    *)
(* against NowH.                                                           *)
(*                                                                         *)
(* State setters are modelled as plain assignments, also after unmount     *)
(* (the code calls them; nothing observes them then).  Effects run in a    *)
(* step of their own, RunEffects, right after the render that changed one  *)
(* of their dependencies and before any other event is handled.            *)
(*                                                                         *)
(* Strings the code looks into (the filter inputs and the fields of a row) *)
(* are sequences of one-character strings, so that includes() and          *)
(* toLowerCase() are computed; messages stay TLA+ strings.                 *)
(*                                                                         *)
(* Spec is the component with the filter inputs left untouched; ViewSpec   *)
(* is the component whose user loads, reloads and filters, without the     *)
(* live channel and the update job; FairSpec is for progress.              *)
(***************************************************************************)
EXTENDS Integers, Sequences, FiniteSets, TLC

\* ------------------------------------------------------------------ bounds
\* Operations (fetches, update cycles) that may be in flight together.
MaxInFlight == 2
\* Rows a response of the store may hold.
MaxRows == 2
\* Rows a response may hold where the view filter is studied.
MaxViewRows == 3

\* --------------------------------------------------------------- constants
\* setTimeout(..., 2000), in seconds.
DEBOUNCE == 2
\* setTimeout(checkAutoUpdate, 3000), in seconds.
STALE_DELAY == 3
\* hoursSinceUpdate >= 24
STALE_HOURS == 24
\* A timer variable holding no pending timeout.
NoTimer == -1
\* The dependency value of the staleness effect for an empty leaderboard (null).
NullKey == -1

\* new Date() at the time of the staleness check, in hours.
NowH == 10 * STALE_HOURS

\* -------------------------------------------------------------------- text
\* The empty string ''.
EmptyText == << >>

UpperChars == << "A", "B", "C", "D", "E", "F", "G", "H", "I", "J", "K", "L", "M",
                 "N", "O", "P", "Q", "R", "S", "T", "U", "V", "W", "X", "Y", "Z" >>
LowerChars == << "a", "b", "c", "d", "e", "f", "g", "h", "i", "j", "k", "l", "m",
                 "n", "o", "p", "q", "r", "s", "t", "u", "v", "w", "x", "y", "z" >>
DigitChars == << "0", "1", "2", "3", "4", "5", "6", "7", "8", "9" >>

\* String.prototype.toLowerCase()
LowerChar(c) ==
    IF \E k \in 1..Len(UpperChars) : UpperChars[k] = c
    THEN LowerChars[CHOOSE k \in 1..Len(UpperChars) : UpperChars[k] = c]
    ELSE c
ToLowerCase(str) == [ i \in 1..Len(str) |-> LowerChar(str[i]) ]

\* String.prototype.includes(sub)
Includes(str, sub) ==
    \E k \in 0..(Len(str) - Len(sub)) : SubSeq(str, k + 1, k + Len(sub)) = sub

\* String(value) of a number
RECURSIVE StringOfNumber(_)
StringOfNumber(n) ==
    IF n < 10 THEN << DigitChars[n + 1] >>
    ELSE StringOfNumber(n \div 10) \o << DigitChars[(n % 10) + 1] >>

\* const cohortTypes = ['Basic', 'Placement', 'MERN', 'Full Stack']
Basic == << "B", "a", "s", "i", "c" >>
Placement == << "P", "l", "a", "c", "e", "m", "e", "n", "t" >>
MERN == << "M", "E", "R", "N" >>
FullStack == << "F", "u", "l", "l", " ", "S", "t", "a", "c", "k" >>
cohortTypes == { Basic, Placement, MERN, FullStack }

\* ------------------------------------------------------------------- store
\* Rows of table student_xp: age 25 h, 23 h, 24 h and 2 h.
RowA == [enrollment_id |-> 1, full_name |-> << "A", "n", "n" >>,
         email |-> << "a", "@", "x" >>, cohort_type |-> MERN,
         cohort_number |-> << "2", ".", "0" >>,
         xp |-> 900, last_updated |-> NowH - 25]
RowB == [enrollment_id |-> 2, full_name |-> << "B", "o" >>,
         email |-> << "b", "@", "x" >>, cohort_type |-> Basic,
         cohort_number |-> << "1", "2", ".", "0" >>,
         xp |-> 500, last_updated |-> NowH - 23]
RowC == [enrollment_id |-> 3, full_name |-> << "M", "e", "g" >>,
         email |-> << "c", "@", "x" >>, cohort_type |-> Basic,
         cohort_number |-> << "1", ".", "0" >>,
         xp |-> 500, last_updated |-> NowH - 24]
RowD == [enrollment_id |-> 4, full_name |-> << "D", "i" >>,
         email |-> << "d", "@", "x" >>, cohort_type |-> Placement,
         cohort_number |-> << "2", ".", "5" >>,
         xp |-> 100, last_updated |-> NowH - 2]
\* The rows the store holds where the coordinator is studied (one fresh row,
\* one stale row, equal scores) and where the view filter is studied (rows
\* that differ in every field a criterion looks at).
Rows == {RowB, RowC}
ViewRows == {RowA, RowB, RowC, RowD}

\* The responses made of the rows: rows with distinct keys, in whatever order
\* the store sends them.
ResultsOf(rows, max) ==
    { s \in UNION { [1..n -> rows] : n \in 0..max } :
        \A i, j \in 1..Len(s) : i # j => s[i].enrollment_id # s[j].enrollment_id }
StoreResults == ResultsOf(Rows, MaxRows)
ViewResults == ResultsOf(ViewRows, MaxViewRows)

\* Values a failing await can throw: supabaseError is a plain object, a
\* rejected fetch is an Error instance.
PlainError == [isError |-> FALSE, message |-> "relation does not exist"]
NetworkError == [isError |-> TRUE, message |-> "TypeError: Failed to fetch"]
FetchThrows == {PlainError, NetworkError}
\* response.json() on a body that is no JSON.
SyntaxError == [isError |-> TRUE, message |-> "SyntaxError: Unexpected token"]

\* HTTP statuses with !response.ok, and the bodies of a parsed job result.
BadStatuses == {500}
JobResults == { [success |-> TRUE, error |-> ""],
                [success |-> FALSE, error |-> ""],
                [success |-> FALSE, error |-> "Unauthorized"] }

\* ----------------------------------------------------------- filter inputs
\* The options of the Cohort Type select: All Types ('') and cohortTypes.
CohortTypeOptions == { EmptyText } \cup cohortTypes
\* Texts typed into the Cohort Number input.
CohortNumberInputs == { EmptyText, << "2" >> }
\* Texts typed into the Search input.
SearchInputs == { EmptyText, << "M", "E" >>, << "9" >> }

VARIABLES
    mounted,        \* the component is mounted
    leaderboard,    \* useState leaderboard
    loading,        \* useState loading
    refreshing,     \* useState refreshing
    lastUpdated,    \* useState lastUpdated: 0 is '', else a time string
    error,          \* useState error
    effectsPending, \* a render committed whose effects have not run yet
    isSubscribed,   \* let isSubscribed of the current subscription effect
    subLoading,     \* the value of loading the subscription handler closed over
    debounceTimer,  \* let debounceTimer: seconds left, or NoTimer
    staleKey,       \* the dependency value the staleness effect last ran with
    staleTimer,     \* const timer of the staleness effect: seconds left, or NoTimer
    nLoadFetch,     \* fetchLeaderboard(true) calls awaiting the store
    nSilentFetch,   \* fetchLeaderboard(false) calls awaiting the store (debounce)
    nJob,           \* updateXPData calls awaiting fetch('/api/update-xp')
    nJson,          \* updateXPData calls awaiting response.json()
    nCycleFetch,    \* updateXPData calls awaiting fetchLeaderboard(false)
    lastData,       \* history: the rows of the last successful response
    sinceNotif,     \* history: seconds since the last notification, NoTimer if none
    burstMany,      \* history: the current burst holds two notifications or more
    burstFetches,   \* history: debounced refetches started for the current burst
    burstArmed,     \* history: the burst's last notification set a timeout no cleanup cleared
    filters,        \* useState filters: { cohortType, cohortNumber }
    searchTerm,     \* useState searchTerm
    filteredLeaderboard, \* useState filteredLeaderboard
    filterPending,  \* a dependency of the filter effect changed in the last render
    unseenChange    \* history: a notification arrived and no fetch has started since

vars == << mounted, leaderboard, loading, refreshing, lastUpdated, error,
           effectsPending, isSubscribed, subLoading, debounceTimer, staleKey,
           staleTimer, nLoadFetch, nSilentFetch, nJob, nJson, nCycleFetch,
           lastData, sinceNotif, burstMany, burstFetches, burstArmed,
           filters, searchTerm, filteredLeaderboard, filterPending, unseenChange >>

compState == << leaderboard, loading, refreshing, lastUpdated, error >>
inflight == << nLoadFetch, nSilentFetch, nJob, nJson, nCycleFetch >>
timers == << debounceTimer, staleKey, staleTimer >>
burst == << sinceNotif, burstMany, burstFetches, burstArmed >>
criteria == << filters, searchTerm >>
view == << filters, searchTerm, filteredLeaderboard, filterPending >>

\* ----------------------------------------------------------------- helpers
FetchesInFlight == nLoadFetch + nSilentFetch + nCycleFetch
CyclesInFlight == nJob + nJson + nCycleFetch
OpsInFlight == nLoadFetch + nSilentFetch + nJob + nJson + nCycleFetch

\* Faulty variant: rank: index, the 0-based position.
FormatData_ZeroBased(data) ==
    [ i \in 1..Len(data) |->
        [ rank |-> i - 1,
          enrollment_id |-> data[i].enrollment_id,
          full_name |-> data[i].full_name,
          email |-> data[i].email,
          cohort_type |-> data[i].cohort_type,
          cohort_number |-> data[i].cohort_number,
          xp |-> data[i].xp,
          last_updated |-> data[i].last_updated ] ]

\* Faulty variant: the rows are ranked in the reverse of the order received.
FormatData_Reversed(data) ==
    [ i \in 1..Len(data) |->
        [ rank |-> i,
          enrollment_id |-> data[Len(data) + 1 - i].enrollment_id,
          full_name |-> data[Len(data) + 1 - i].full_name,
          email |-> data[Len(data) + 1 - i].email,
          cohort_type |-> data[Len(data) + 1 - i].cohort_type,
          cohort_number |-> data[Len(data) + 1 - i].cohort_number,
          xp |-> data[Len(data) + 1 - i].xp,
          last_updated |-> data[Len(data) + 1 - i].last_updated ] ]

\* (data || []).map((entry, index) => ({ rank: index + 1, ...entry }))
FormatData(data) ==
    [ i \in 1..Len(data) |->
        [ rank |-> i,
          enrollment_id |-> data[i].enrollment_id,
          full_name |-> data[i].full_name,
          email |-> data[i].email,
          cohort_type |-> data[i].cohort_type,
          cohort_number |-> data[i].cohort_number,
          xp |-> data[i].xp,
          last_updated |-> data[i].last_updated ] ]

\* err instanceof Error ? err.message : 'Failed to fetch leaderboard'
FetchErrorMessage(err) ==
    IF err.isError THEN err.message ELSE "Failed to fetch leaderboard"

\* err instanceof Error ? err.message : 'Failed to update XP data'
UpdateErrorMessage(err) ==
    IF err.isError THEN err.message ELSE "Failed to update XP data"

\* new Error(`HTTP error! status: ${response.status}`)
HttpError(status) ==
    [isError |-> TRUE, message |-> "HTTP error! status: " \o ToString(status)]

\* Faulty variant: new Error(result.error), without the default message.
ResultError_NoDefault(result) ==
    [isError |-> TRUE, message |-> result.error]

\* new Error(result.error || 'XP update failed')
ResultError(result) ==
    [isError |-> TRUE,
     message |-> IF result.error # "" THEN result.error ELSE "XP update failed"]

\* new Date().toLocaleString(): a time string differing from the one shown.
Stamp(shown) == IF shown = 1 THEN 2 ELSE 1

\* (now.getTime() - lastUpdate.getTime()) / (1000 * 60 * 60)
HoursSince(ts) == NowH - ts

\* leaderboard.length > 0 ? leaderboard[0]?.last_updated : null
StaleDep(lb) == IF Len(lb) > 0 THEN lb[1].last_updated ELSE NullKey

\* Object.values(entry) with String(value) applied to each.
EntryStrings(entry) ==
    << StringOfNumber(entry.rank), StringOfNumber(entry.enrollment_id),
       entry.full_name, entry.email, entry.cohort_type, entry.cohort_number,
       StringOfNumber(entry.xp), StringOfNumber(entry.last_updated) >>

\* Faulty variant: the value is compared as written, not in lower case.
SearchMatches_CaseSensitive(entry, term) ==
    \E k \in 1..Len(EntryStrings(entry)) :
        Includes(EntryStrings(entry)[k], ToLowerCase(term))

\* Object.values(entry).some(value =>
\*     String(value).toLowerCase().includes(searchTerm.toLowerCase()))
SearchMatches(entry, term) ==
    \E k \in 1..Len(EntryStrings(entry)) :
        Includes(ToLowerCase(EntryStrings(entry)[k]), ToLowerCase(term))

\* Faulty variant: the entries that pass are returned last first.
ApplyView_Reversed(lb, f, term) ==
    LET byType == IF f.cohortType # EmptyText
                  THEN SelectSeq(lb, LAMBDA e : e.cohort_type = f.cohortType)
                  ELSE lb
        byNumber == IF f.cohortNumber # EmptyText
                    THEN SelectSeq(byType,
                             LAMBDA e : Includes(e.cohort_number, f.cohortNumber))
                    ELSE byType
        bySearch == IF term # EmptyText
                    THEN SelectSeq(byNumber, LAMBDA e : SearchMatches(e, term))
                    ELSE byNumber
    IN  [ i \in 1..Len(bySearch) |-> bySearch[Len(bySearch) + 1 - i] ]

\* The body of the filter effect: let filtered = [...leaderboard];
\* if (filters.cohortType) filtered = filtered.filter(... === ...);
\* if (filters.cohortNumber) filtered = filtered.filter(... .includes(...));
\* if (searchTerm) filtered = filtered.filter(... .some(...))
ApplyView(lb, f, term) ==
    LET byType == IF f.cohortType # EmptyText
                  THEN SelectSeq(lb, LAMBDA e : e.cohort_type = f.cohortType)
                  ELSE lb
        byNumber == IF f.cohortNumber # EmptyText
                    THEN SelectSeq(byType,
                             LAMBDA e : Includes(e.cohort_number, f.cohortNumber))
                    ELSE byType
    IN  IF term # EmptyText
        THEN SelectSeq(byNumber, LAMBDA e : SearchMatches(e, term))
        ELSE byNumber

\* filteredLeaderboard.map((entry, index) => ... {index + 1} ...): the rows of
\* the table with the number shown in the Rank column; position i is index
\* i - 1.
DisplayedRows ==
    [ i \in 1..Len(filteredLeaderboard) |->
        [ shownRank |-> (i - 1) + 1, entry |-> filteredLeaderboard[i] ] ]

\* ------------------------------------------------------------------- Init
\* The state after mount: every effect has run once, so the subscription is
\* live with loading = true captured and the initial fetchLeaderboard() waits.
Init ==
    /\ mounted = TRUE
    /\ leaderboard = << >>
    /\ loading = TRUE
    /\ refreshing = FALSE
    /\ lastUpdated = 0
    /\ error = ""
    /\ effectsPending = FALSE
    /\ isSubscribed = TRUE
    /\ subLoading = TRUE
    /\ debounceTimer = NoTimer
    /\ staleKey = NullKey
    /\ staleTimer = NoTimer
    /\ nLoadFetch = 1
    /\ nSilentFetch = 0
    /\ nJob = 0
    /\ nJson = 0
    /\ nCycleFetch = 0
    /\ lastData = << >>
    /\ sinceNotif = NoTimer
    /\ burstMany = FALSE
    /\ burstFetches = 0
    /\ burstArmed = FALSE
    /\ filters = [cohortType |-> EmptyText, cohortNumber |-> EmptyText]
    /\ searchTerm = EmptyText
    /\ filteredLeaderboard = << >>
    /\ filterPending = FALSE
    /\ unseenChange = FALSE

\* ---------------------------------------------------------------- effects
\* The effects whose dependencies changed in the last render: the filter
\* effect ([leaderboard, filters, searchTerm]), which ends with
\* setFilteredLeaderboard(filtered), the subscription effect
\* ([fetchLeaderboard, loading]) and the staleness effect
\* ([leaderboard[0].last_updated or null, updateXPData]).
\* Faulty variant: fetchLeaderboard is not memoised, so the subscription effect
\* runs its cleanup and subscribes again after every render.
RunEffects_Resubscribes ==
    /\ effectsPending
    /\ mounted
    /\ effectsPending' = FALSE
    /\ filterPending' = FALSE
    /\ IF filterPending
       THEN filteredLeaderboard' = ApplyView(leaderboard, filters, searchTerm)
       ELSE UNCHANGED filteredLeaderboard
    /\ debounceTimer' = NoTimer
    /\ isSubscribed' = TRUE
    /\ subLoading' = loading
    /\ burstArmed' = (burstArmed /\ debounceTimer = NoTimer)
    /\ IF StaleDep(leaderboard) # staleKey
       THEN /\ staleKey' = StaleDep(leaderboard)
            /\ staleTimer' = IF Len(leaderboard) = 0 THEN NoTimer ELSE STALE_DELAY
       ELSE UNCHANGED << staleKey, staleTimer >>
    /\ UNCHANGED << mounted, compState, inflight, lastData,
                    sinceNotif, burstMany, burstFetches, criteria, unseenChange >>

RunEffects ==
    /\ effectsPending
    /\ mounted
    /\ effectsPending' = FALSE
    /\ filterPending' = FALSE
    /\ IF filterPending
       THEN filteredLeaderboard' = ApplyView(leaderboard, filters, searchTerm)
       ELSE UNCHANGED filteredLeaderboard
    /\ IF subLoading # loading
       THEN /\ debounceTimer' = NoTimer
            /\ isSubscribed' = TRUE
            /\ subLoading' = loading
            /\ burstArmed' = (burstArmed /\ debounceTimer = NoTimer)
       ELSE UNCHANGED << debounceTimer, isSubscribed, subLoading, burstArmed >>
    /\ IF StaleDep(leaderboard) # staleKey
       THEN /\ staleKey' = StaleDep(leaderboard)
            /\ staleTimer' = IF Len(leaderboard) = 0 THEN NoTimer ELSE STALE_DELAY
       ELSE UNCHANGED << staleKey, staleTimer >>
    /\ UNCHANGED << mounted, compState, inflight, lastData,
                    sinceNotif, burstMany, burstFetches, criteria, unseenChange >>

\* ----------------------------------------------------------- user actions
\* Reload button: onClick={() => fetchLeaderboard(true)}, disabled={loading}.
\* fetchLeaderboard: if (showLoading) setLoading(true); setError(''); await ...
ClickReload ==
    /\ mounted
    /\ ~effectsPending
    /\ ~loading
    /\ OpsInFlight < MaxInFlight
    /\ loading' = TRUE
    /\ error' = ""
    /\ nLoadFetch' = nLoadFetch + 1
    /\ effectsPending' = TRUE
    /\ unseenChange' = FALSE
    /\ UNCHANGED << mounted, leaderboard, refreshing, lastUpdated, isSubscribed,
                    subLoading, timers, nSilentFetch, nJob, nJson, nCycleFetch,
                    lastData, burst, view >>

\* updateXPData up to its first await:
\* setRefreshing(true); setError(''); await fetch('/api/update-xp?...')
StartUpdate ==
    /\ refreshing' = TRUE
    /\ error' = ""
    /\ nJob' = nJob + 1

\* Refresh XP button: onClick={updateXPData}, disabled={refreshing || loading}.
ClickRefreshXP ==
    /\ mounted
    /\ ~effectsPending
    /\ ~(refreshing \/ loading)
    /\ OpsInFlight < MaxInFlight
    /\ StartUpdate
    /\ UNCHANGED << mounted, leaderboard, loading, lastUpdated, effectsPending,
                    isSubscribed, subLoading, timers, nLoadFetch, nSilentFetch,
                    nJson, nCycleFetch, lastData, burst, view, unseenChange >>

\* Unmount: the cleanups of the subscription effect (isSubscribed = false,
\* clearTimeout(debounceTimer), removeChannel) and of the staleness effect
\* (clearTimeout(timer)).
Unmount ==
    /\ mounted
    /\ ~effectsPending
    /\ mounted' = FALSE
    /\ isSubscribed' = FALSE
    /\ debounceTimer' = NoTimer
    /\ staleTimer' = NoTimer
    /\ burstArmed' = (burstArmed /\ debounceTimer = NoTimer)
    /\ UNCHANGED << compState, effectsPending, subLoading, staleKey, inflight,
                    lastData, sinceNotif, burstMany, burstFetches, view,
                    unseenChange >>

\* ----------------------------------------------------------- notifications
\* Faulty variant: a pending timeout is left running, not cleared and restarted.
OnNotification_NoRestart ==
    LET accepted == isSubscribed /\ ~subLoading
        joins == debounceTimer # NoTimer
                 \/ (sinceNotif # NoTimer /\ sinceNotif < DEBOUNCE)
    IN  /\ debounceTimer' = IF accepted /\ debounceTimer = NoTimer
                            THEN DEBOUNCE ELSE debounceTimer
        /\ sinceNotif' = 0
        /\ burstMany' = joins
        /\ burstFetches' = IF joins THEN burstFetches ELSE 0
        /\ burstArmed' = accepted

\* The postgres_changes handler of the live channel:
\* if (isSubscribed && !loading) { clearTimeout(debounceTimer);
\*                                 debounceTimer = setTimeout(..., 2000) }
\* A notification that arrives before the pending timer has fired joins the
\* current burst; one that arrives after 2 s of silence opens a new burst.
OnNotification ==
    LET accepted == isSubscribed /\ ~subLoading
        joins == debounceTimer # NoTimer
                 \/ (sinceNotif # NoTimer /\ sinceNotif < DEBOUNCE)
    IN  /\ debounceTimer' = IF accepted THEN DEBOUNCE ELSE debounceTimer
        /\ sinceNotif' = 0
        /\ burstMany' = joins
        /\ burstFetches' = IF joins THEN burstFetches ELSE 0
        /\ burstArmed' = accepted

Notification ==
    /\ mounted
    /\ ~effectsPending
    /\ OnNotification
    /\ unseenChange' = TRUE
    /\ UNCHANGED << mounted, compState, effectsPending, isSubscribed, subLoading,
                    staleKey, staleTimer, inflight, lastData, view >>

\* The debounce timeout: if (isSubscribed) fetchLeaderboard(false)
DebounceFire ==
    /\ ~effectsPending
    /\ debounceTimer = 0
    /\ OpsInFlight < MaxInFlight
    /\ debounceTimer' = NoTimer
    /\ IF isSubscribed
       THEN /\ error' = ""
            /\ nSilentFetch' = nSilentFetch + 1
            /\ burstFetches' = burstFetches + 1
            /\ unseenChange' = FALSE
       ELSE UNCHANGED << error, nSilentFetch, burstFetches, unseenChange >>
    /\ UNCHANGED << mounted, leaderboard, loading, refreshing, lastUpdated,
                    effectsPending, isSubscribed, subLoading, staleKey, staleTimer,
                    nLoadFetch, nJob, nJson, nCycleFetch, lastData, sinceNotif,
                    burstMany, burstArmed, view >>

\* --------------------------------------------------------------- staleness
\* hoursSinceUpdate >= 24, of the leaderboard[0].last_updated closed over.
IsStale(ts) == HoursSince(ts) >= STALE_HOURS

\* checkAutoUpdate, run by the 3 s timeout: if stale, updateXPData().
StaleFire ==
    /\ ~effectsPending
    /\ staleTimer = 0
    /\ staleTimer' = NoTimer
    /\ IF IsStale(staleKey)
       THEN /\ OpsInFlight < MaxInFlight
            /\ StartUpdate
       ELSE UNCHANGED << refreshing, error, nJob >>
    /\ UNCHANGED << mounted, leaderboard, loading, lastUpdated, effectsPending,
                    isSubscribed, subLoading, debounceTimer, staleKey, nLoadFetch,
                    nSilentFetch, nJson, nCycleFetch, lastData, burst, view,
                    unseenChange >>

\* -------------------------------------------------------------------- time
\* One second passes.  A timeout that is due runs before time moves on.
Tick ==
    /\ ~effectsPending
    /\ debounceTimer # 0
    /\ staleTimer # 0
    /\ \/ debounceTimer > 0
       \/ staleTimer > 0
       \/ (sinceNotif # NoTimer /\ sinceNotif < DEBOUNCE)
    /\ debounceTimer' = IF debounceTimer > 0 THEN debounceTimer - 1 ELSE debounceTimer
    /\ staleTimer' = IF staleTimer > 0 THEN staleTimer - 1 ELSE staleTimer
    /\ sinceNotif' = IF sinceNotif # NoTimer /\ sinceNotif < DEBOUNCE
                     THEN sinceNotif + 1 ELSE sinceNotif
    /\ UNCHANGED << mounted, compState, effectsPending, isSubscribed, subLoading,
                    staleKey, inflight, lastData, burstMany, burstFetches,
                    burstArmed, view, unseenChange >>

\* ------------------------------------------------- fetchLeaderboard resolves
FetchKinds == {"load", "silent"}

\* One fetchLeaderboard call of the kind leaves its await.
FetchLeaves(kind) ==
    /\ IF kind = "load" THEN nLoadFetch > 0 ELSE nSilentFetch > 0
    /\ nLoadFetch' = IF kind = "load" THEN nLoadFetch - 1 ELSE nLoadFetch
    /\ nSilentFetch' = IF kind = "silent" THEN nSilentFetch - 1 ELSE nSilentFetch

\* The try branch after the await: setLeaderboard(formattedData);
\* if (data && data.length > 0) setLastUpdated(new Date().toLocaleString())
\* and the finally: setLoading(false)
FetchSuccessState(data) ==
    /\ leaderboard' = FormatData(data)
    /\ lastData' = data
    /\ loading' = FALSE

\* Faulty variant: setLoading(false) sits in the try block, not in finally.
FetchFailureState_NoFinally(err) ==
    /\ error' = FetchErrorMessage(err)
    /\ UNCHANGED << loading, leaderboard, lastData >>

\* Faulty variant: the catch branch also clears the dataset.
FetchFailureState_Clears(err) ==
    /\ error' = FetchErrorMessage(err)
    /\ loading' = FALSE
    /\ leaderboard' = << >>
    /\ UNCHANGED lastData

\* The catch branch: setError(...) and the finally: setLoading(false)
FetchFailureState(err) ==
    /\ error' = FetchErrorMessage(err)
    /\ loading' = FALSE
    /\ UNCHANGED << leaderboard, lastData >>

\* A standalone fetchLeaderboard call (initial load, Reload, debounce) gets
\* its rows.
FetchSucceeds(kind, data) ==
    /\ ~effectsPending
    /\ FetchLeaves(kind)
    /\ FetchSuccessState(data)
    /\ lastUpdated' = IF Len(data) > 0 THEN Stamp(lastUpdated) ELSE lastUpdated
    /\ effectsPending' = mounted
    /\ filterPending' = mounted
    /\ UNCHANGED << mounted, refreshing, error, isSubscribed, subLoading, timers,
                    nJob, nJson, nCycleFetch, burst, criteria,
                    filteredLeaderboard, unseenChange >>

\* A standalone fetchLeaderboard call gets supabaseError or a rejection.
FetchFails(kind, err) ==
    /\ ~effectsPending
    /\ FetchLeaves(kind)
    /\ FetchFailureState(err)
    /\ effectsPending' = (mounted /\ loading)
    /\ UNCHANGED << mounted, refreshing, lastUpdated, isSubscribed, subLoading,
                    timers, nJob, nJson, nCycleFetch, burst, view, unseenChange >>

\* ----------------------------------------------------- updateXPData resolves
\* Faulty variant: setRefreshing(false) sits in the try block, not in finally.
UpdateFailureState_NoFinally(err) ==
    /\ error' = UpdateErrorMessage(err)
    /\ UNCHANGED refreshing

\* The catch and finally of updateXPData:
\* setError(...); setRefreshing(false)
UpdateFailureState(err) ==
    /\ error' = UpdateErrorMessage(err)
    /\ refreshing' = FALSE

\* fetch('/api/update-xp') resolves with response.ok.
JobResponds ==
    /\ ~effectsPending
    /\ nJob > 0
    /\ nJob' = nJob - 1
    /\ nJson' = nJson + 1
    /\ UNCHANGED << mounted, compState, effectsPending, isSubscribed, subLoading,
                    timers, nLoadFetch, nSilentFetch, nCycleFetch, lastData, burst,
                    view, unseenChange >>

\* fetch('/api/update-xp') rejects, or resolves with !response.ok.
JobFails(err) ==
    /\ ~effectsPending
    /\ nJob > 0
    /\ nJob' = nJob - 1
    /\ UpdateFailureState(err)
    /\ UNCHANGED << mounted, leaderboard, loading, lastUpdated, effectsPending,
                    isSubscribed, subLoading, timers, nLoadFetch, nSilentFetch,
                    nJson, nCycleFetch, lastData, burst, view, unseenChange >>

\* response.json() resolves with result.success: await fetchLeaderboard(false),
\* which runs setError('') up to its await.
JobSucceeds(result) ==
    /\ ~effectsPending
    /\ nJson > 0
    /\ result.success
    /\ nJson' = nJson - 1
    /\ nCycleFetch' = nCycleFetch + 1
    /\ error' = ""
    /\ unseenChange' = FALSE
    /\ UNCHANGED << mounted, leaderboard, loading, refreshing, lastUpdated,
                    effectsPending, isSubscribed, subLoading, timers, nLoadFetch,
                    nSilentFetch, nJob, lastData, burst, view >>

\* response.json() resolves with a result that reports failure.
JobReportsFailure(result) ==
    /\ ~effectsPending
    /\ nJson > 0
    /\ ~result.success
    /\ nJson' = nJson - 1
    /\ UpdateFailureState(ResultError(result))
    /\ UNCHANGED << mounted, leaderboard, loading, lastUpdated, effectsPending,
                    isSubscribed, subLoading, timers, nLoadFetch, nSilentFetch,
                    nJob, nCycleFetch, lastData, burst, view, unseenChange >>

\* response.json() rejects (the body is no JSON).
JobBodyFails(err) ==
    /\ ~effectsPending
    /\ nJson > 0
    /\ nJson' = nJson - 1
    /\ UpdateFailureState(err)
    /\ UNCHANGED << mounted, leaderboard, loading, lastUpdated, effectsPending,
                    isSubscribed, subLoading, timers, nLoadFetch, nSilentFetch,
                    nJob, nCycleFetch, lastData, burst, view, unseenChange >>

\* The refetch of a cycle gets its rows; updateXPData goes on with
\* setLastUpdated(new Date().toLocaleString()) and its finally.
CycleFetchSucceeds(data) ==
    /\ ~effectsPending
    /\ nCycleFetch > 0
    /\ nCycleFetch' = nCycleFetch - 1
    /\ FetchSuccessState(data)
    /\ lastUpdated' = Stamp(lastUpdated)
    /\ refreshing' = FALSE
    /\ effectsPending' = mounted
    /\ filterPending' = mounted
    /\ UNCHANGED << mounted, error, isSubscribed, subLoading, timers, nLoadFetch,
                    nSilentFetch, nJob, nJson, burst, criteria,
                    filteredLeaderboard, unseenChange >>

\* The refetch of a cycle fails: fetchLeaderboard catches the error itself, so
\* updateXPData goes on as after a success.
CycleFetchFails(err) ==
    /\ ~effectsPending
    /\ nCycleFetch > 0
    /\ nCycleFetch' = nCycleFetch - 1
    /\ FetchFailureState(err)
    /\ lastUpdated' = Stamp(lastUpdated)
    /\ refreshing' = FALSE
    /\ effectsPending' = (mounted /\ loading)
    /\ UNCHANGED << mounted, isSubscribed, subLoading, timers, nLoadFetch,
                    nSilentFetch, nJob, nJson, burst, view, unseenChange >>

\* ------------------------------------------------------------------- Next
Next ==
    \/ RunEffects
    \/ ClickReload
    \/ ClickRefreshXP
    \/ Unmount
    \/ Notification
    \/ DebounceFire
    \/ StaleFire
    \/ Tick
    \/ \E kind \in FetchKinds, data \in StoreResults : FetchSucceeds(kind, data)
    \/ \E kind \in FetchKinds, err \in FetchThrows : FetchFails(kind, err)
    \/ JobResponds
    \/ \E status \in BadStatuses : JobFails(HttpError(status))
    \/ JobFails(NetworkError)
    \/ \E result \in JobResults : JobSucceeds(result)
    \/ JobBodyFails(SyntaxError)
    \/ \E result \in JobResults : JobReportsFailure(result)
    \/ \E data \in StoreResults : CycleFetchSucceeds(data)
    \/ \E err \in FetchThrows : CycleFetchFails(err)

Spec == Init /\ [][Next]_vars

\* ------------------------------------------------------------ filter inputs
\* What a change of a filter input leaves alone.
coordinator == << mounted, compState, isSubscribed, subLoading, timers, inflight,
                 lastData, burst, unseenChange >>

\* Cohort Type select: onChange={(e) => setFilters(prev =>
\*     ({ ...prev, cohortType: e.target.value }))}
SelectCohortType(type) ==
    /\ mounted
    /\ ~effectsPending
    /\ type # filters.cohortType
    /\ filters' = [filters EXCEPT !.cohortType = type]
    /\ effectsPending' = TRUE
    /\ filterPending' = TRUE
    /\ UNCHANGED << coordinator, searchTerm, filteredLeaderboard >>

\* Cohort Number input: onChange={(e) => setFilters(prev =>
\*     ({ ...prev, cohortNumber: e.target.value }))}
TypeCohortNumber(text) ==
    /\ mounted
    /\ ~effectsPending
    /\ text # filters.cohortNumber
    /\ filters' = [filters EXCEPT !.cohortNumber = text]
    /\ effectsPending' = TRUE
    /\ filterPending' = TRUE
    /\ UNCHANGED << coordinator, searchTerm, filteredLeaderboard >>

\* Search input: onChange={(e) => setSearchTerm(e.target.value)}
TypeSearchTerm(text) ==
    /\ mounted
    /\ ~effectsPending
    /\ text # searchTerm
    /\ searchTerm' = text
    /\ effectsPending' = TRUE
    /\ filterPending' = TRUE
    /\ UNCHANGED << coordinator, filters, filteredLeaderboard >>

\* Clear All Filters, rendered when !loading && leaderboard.length > 0 &&
\* filteredLeaderboard.length === 0:
\* setFilters({ cohortType: '', cohortNumber: '' }); setSearchTerm('')
ClearAllFilters ==
    /\ mounted
    /\ ~effectsPending
    /\ ~loading
    /\ Len(leaderboard) > 0
    /\ Len(filteredLeaderboard) = 0
    /\ filters' = [cohortType |-> EmptyText, cohortNumber |-> EmptyText]
    /\ searchTerm' = EmptyText
    /\ effectsPending' = TRUE
    /\ filterPending' = TRUE
    /\ UNCHANGED << coordinator, filteredLeaderboard >>

\* The component used to load, reload and filter: the store answers, the
\* live channel stays silent and nobody asks for an XP update.
ViewNext ==
    \/ RunEffects
    \/ ClickReload
    \/ \E type \in CohortTypeOptions : SelectCohortType(type)
    \/ \E text \in CohortNumberInputs : TypeCohortNumber(text)
    \/ \E text \in SearchInputs : TypeSearchTerm(text)
    \/ ClearAllFilters
    \/ \E kind \in FetchKinds, data \in ViewResults : FetchSucceeds(kind, data)
    \/ \E kind \in FetchKinds, err \in FetchThrows : FetchFails(kind, err)

ViewSpec == Init /\ [][ViewNext]_vars

\* ---------------------------------------------------------------- fairness
\* The specification for progress claims.  The program and its events are
\* those of Spec; the store answers with no row, with the one row that is
\* stale or with the one row that is fresh, so that every kind of answer and
\* every timer still occurs while the behaviours stay few enough for a
\* liveness check.
LiveResults == { << >>, << RowC >>, << RowB >> }

FetchAnswered ==
    \/ \E kind \in FetchKinds, data \in LiveResults : FetchSucceeds(kind, data)
    \/ \E kind \in FetchKinds, err \in FetchThrows : FetchFails(kind, err)

JobAnswered ==
    \/ JobResponds
    \/ \E status \in BadStatuses : JobFails(HttpError(status))
    \/ JobFails(NetworkError)

BodyAnswered ==
    \/ \E result \in JobResults : JobSucceeds(result)
    \/ \E result \in JobResults : JobReportsFailure(result)
    \/ JobBodyFails(SyntaxError)

CycleFetchAnswered ==
    \/ \E data \in LiveResults : CycleFetchSucceeds(data)
    \/ \E err \in FetchThrows : CycleFetchFails(err)

LiveNext ==
    \/ RunEffects
    \/ ClickReload
    \/ ClickRefreshXP
    \/ Unmount
    \/ Notification
    \/ DebounceFire
    \/ StaleFire
    \/ Tick
    \/ FetchAnswered
    \/ JobAnswered
    \/ BodyAnswered
    \/ CycleFetchAnswered

\* The event loop runs every callback that is ready and React runs the
\* effects of every render: effects run, and every awaited request is
\* answered.
FairSpec ==
    /\ Init
    /\ [][LiveNext]_vars
    /\ WF_vars(RunEffects)
    /\ SF_vars(FetchAnswered)
    /\ SF_vars(JobAnswered)
    /\ SF_vars(BodyAnswered)
    /\ SF_vars(CycleFetchAnswered)

\* ------------------------------------------------- filtering while busy
\* The mounted component whose user changes the filter inputs while the
\* coordinator works: loads, notifications, both timers and update cycles,
\* with a store that answers with no row or with the one stale row, and
\* filter inputs of which each alone hides that row.
FrameResults == { << >>, << RowC >> }
FrameCohortTypes == { EmptyText, MERN }
FrameSearchInputs == { EmptyText, << "9" >> }

FrameNext ==
    \/ RunEffects
    \/ ClickReload
    \/ ClickRefreshXP
    \/ Notification
    \/ DebounceFire
    \/ StaleFire
    \/ Tick
    \/ \E kind \in FetchKinds, data \in FrameResults : FetchSucceeds(kind, data)
    \/ \E kind \in FetchKinds, err \in FetchThrows : FetchFails(kind, err)
    \/ JobAnswered
    \/ BodyAnswered
    \/ \E data \in FrameResults : CycleFetchSucceeds(data)
    \/ \E err \in FetchThrows : CycleFetchFails(err)
    \/ \E type \in FrameCohortTypes : SelectCohortType(type)
    \/ \E text \in CohortNumberInputs : TypeCohortNumber(text)
    \/ \E text \in FrameSearchInputs : TypeSearchTerm(text)
    \/ ClearAllFilters

FrameSpec == Init /\ [][FrameNext]_vars

\* ======================================================================
\* Claims
\* ======================================================================

\* C1 (as stated): while the component is mounted, at most one fetch of the
\* canonical dataset is in flight at any time, whatever started the fetches.
C1_OneFetchInFlight == mounted => FetchesInFlight <= 1

\* A burst is over: 2 s have passed since its last notification and no
\* debounce timeout is pending.
BurstOver == sinceNotif # NoTimer /\ sinceNotif >= DEBOUNCE /\ debounceTimer = NoTimer

\* C2 (as stated): every burst of N >= 1 notifications received by the mounted
\* component produces exactly one debounced refetch, not zero and not one per
\* notification.
C2_ExactlyOneRefetch == (mounted /\ BurstOver) => burstFetches = 1

\* C2 (amended): a burst produces at most one debounced refetch, and that
\* refetch starts only when 2 s have passed since the last notification; once
\* the burst is over it has produced exactly one refetch if its last
\* notification set a timeout (component subscribed, loading false in the
\* handler) that no cleanup cleared (no change of loading, no unmount), and
\* none otherwise.
C2_DebounceCollapses ==
    /\ [](burstFetches <= 1)
    /\ [](BurstOver => burstFetches = IF burstArmed THEN 1 ELSE 0)
    /\ [][burstFetches' > burstFetches => sinceNotif >= DEBOUNCE]_vars

\* C2 witness: a burst of two or more notifications is over and has produced
\* its single refetch.
C2_Witness ==
    mounted /\ BurstOver /\ burstMany /\ burstArmed /\ burstFetches = 1

\* C3 (as stated): after unmount no timer is pending and no fetch is started,
\* also not by the completion of an operation that was in flight at unmount.
C3_NoFetchAfterTeardown ==
    /\ [](~mounted => debounceTimer = NoTimer /\ staleTimer = NoTimer)
    /\ [][~mounted => FetchesInFlight' <= FetchesInFlight]_vars

\* A step in which a fetchLeaderboard call resolves with an error.
FetchFailureStep ==
    \/ \E kind \in FetchKinds, err \in FetchThrows : FetchFails(kind, err)
    \/ \E err \in FetchThrows : CycleFetchFails(err)

JobFailureStep ==
    \/ \E status \in BadStatuses : JobFails(HttpError(status))
    \/ JobFails(NetworkError)
    \/ JobBodyFails(SyntaxError)
    \/ \E result \in JobResults : JobReportsFailure(result)

\* C5: when the recomputation job fails (request rejected, non-success
\* response, unreadable body, or a result reporting failure) no refetch
\* starts, the canonical dataset is unchanged and a non-empty error message
\* is set.
C5_JobFailure ==
    [][ (CyclesInFlight' < CyclesInFlight /\ JobFailureStep) =>
            /\ FetchesInFlight' = FetchesInFlight
            /\ leaderboard' = leaderboard
            /\ error' # "" ]_vars

\* C5 witness: a job result reported failure without a message while a
\* dataset was shown; no fetch is in flight.
C5_Witness ==
    /\ mounted
    /\ error = "XP update failed"
    /\ Len(leaderboard) > 0
    /\ FetchesInFlight = 0

\* C6: every step that ends an updateXPData call (job failed, or the
\* follow-up refetch resolved, with rows or with an error) leaves
\* "refreshing" false, and while the job and the store answer, "refreshing"
\* once true becomes false again.
C6_UpdatingCleared ==
    /\ [][CyclesInFlight' < CyclesInFlight => ~refreshing']_vars
    /\ (refreshing ~> ~refreshing)

\* C6 witness: a cycle whose follow-up refetch failed has ended and
\* "refreshing" is false.
C6_Witness ==
    /\ mounted
    /\ ~refreshing
    /\ CyclesInFlight = 0
    /\ error = "TypeError: Failed to fetch"
    /\ lastUpdated # 0
    /\ leaderboard = << >>

\* The most recent last_updated among the entries of a non-empty dataset.
MostRecent(lb) ==
    CHOOSE t \in { lb[i].last_updated : i \in 1..Len(lb) } :
        \A i \in 1..Len(lb) : lb[i].last_updated <= t

\* A step in which the staleness timeout runs checkAutoUpdate.
StaleCheckStep == staleTimer = 0 /\ staleTimer' = NoTimer /\ mounted'

\* C7 (as stated): the staleness check starts an Update Trigger cycle if and
\* only if the most recent updatedAt among all entries of the canonical
\* dataset is at least 24 hours old.
C7_StaleIffMostRecentOld ==
    [][ StaleCheckStep =>
            ( (nJob' > nJob) <=>
              (HoursSince(MostRecent(leaderboard)) >= STALE_HOURS) ) ]_vars

\* C8 (as stated): the staleness check is armed only by the transition of the
\* canonical dataset from empty to non-empty; a fetch that replaces a
\* non-empty dataset by a non-empty one never re-arms it.
C8_ArmedOnlyFromEmpty ==
    [][ (staleKey' # staleKey /\ staleTimer' = STALE_DELAY)
            => staleKey = NullKey ]_vars

\* Score descending, ties by last_updated ascending.
Ordered(seq) ==
    \A i, j \in 1..Len(seq) :
        i < j => \/ seq[i].xp > seq[j].xp
                 \/ (seq[i].xp = seq[j].xp
                     /\ seq[i].last_updated <= seq[j].last_updated)

C10_RanksArePositions ==
    /\ \A i \in 1..Len(leaderboard) : leaderboard[i].rank = i
    /\ { leaderboard[i].rank : i \in 1..Len(leaderboard) } = 1..Len(leaderboard)
    /\ Cardinality({ leaderboard[i].rank : i \in 1..Len(leaderboard) })
          = Len(leaderboard)

\* C10 witness: two entries with equal scores carry the ranks 1 and 2.
C10_Witness ==
    /\ mounted
    /\ Len(leaderboard) >= 2
    /\ leaderboard[1].xp = leaderboard[2].xp
    /\ leaderboard[1].rank = 1
    /\ leaderboard[2].rank = 2

\* sub is seq with some of its entries left out, the others in their order.
RECURSIVE IsSubsequence(_, _)
IsSubsequence(sub, seq) ==
    IF Len(sub) = 0 THEN TRUE
    ELSE IF Len(seq) = 0 THEN FALSE
    ELSE IF Head(sub) = Head(seq) THEN IsSubsequence(Tail(sub), Tail(seq))
    ELSE IsSubsequence(sub, Tail(seq))

\* C11: once the filter effect has run, the filtered view is a subsequence of
\* the canonical dataset: its entries are entries of the dataset in the same
\* relative order, each with the rank it has in the dataset, whatever the
\* criteria and the search term.
C11_FilterKeepsOrder ==
    (mounted /\ ~filterPending) =>
        /\ IsSubsequence(filteredLeaderboard, leaderboard)
        /\ \A i \in 1..Len(filteredLeaderboard) :
              /\ filteredLeaderboard[i].rank \in 1..Len(leaderboard)
              /\ leaderboard[filteredLeaderboard[i].rank] = filteredLeaderboard[i]
        /\ \A i, j \in 1..Len(filteredLeaderboard) :
              i < j => filteredLeaderboard[i].rank < filteredLeaderboard[j].rank

\* C11 witness: a criterion removed the middle one of three entries; the
\* entries ranked 1 and 3 remain, in that order.
C11_Witness ==
    /\ mounted
    /\ ~filterPending
    /\ Len(leaderboard) = 3
    /\ Len(filteredLeaderboard) = 2
    /\ filteredLeaderboard[1].rank = 1
    /\ filteredLeaderboard[2].rank = 3

\* The string forms of the fields of an entry: rank, id, name, contact,
\* category, batch, score, timestamp.
FieldTexts(entry) ==
    { StringOfNumber(entry.rank), StringOfNumber(entry.enrollment_id),
      entry.full_name, entry.email, entry.cohort_type, entry.cohort_number,
      StringOfNumber(entry.xp), StringOfNumber(entry.last_updated) }

\* The entry satisfies every criterion that is not empty: the category is
\* equal, the batch contains the text (case-sensitive), some field contains
\* the search term (case-insensitive).
SatisfiesCriteria(entry, f, term) ==
    /\ f.cohortType # EmptyText => entry.cohort_type = f.cohortType
    /\ f.cohortNumber # EmptyText => Includes(entry.cohort_number, f.cohortNumber)
    /\ term # EmptyText =>
          \E text \in FieldTexts(entry) :
              Includes(ToLowerCase(text), ToLowerCase(term))

\* C12: once the filter effect has run, the filtered view holds exactly the
\* entries of the dataset that satisfy every non-empty criterion; with every
\* criterion empty it is the dataset; and it is never longer than the view
\* the same criteria give without the search term.
C12_ExactlyTheMatching ==
    (mounted /\ ~filterPending) =>
        /\ filteredLeaderboard =
              SelectSeq(leaderboard,
                        LAMBDA e : SatisfiesCriteria(e, filters, searchTerm))
        /\ ( /\ filters.cohortType = EmptyText
             /\ filters.cohortNumber = EmptyText
             /\ searchTerm = EmptyText ) => filteredLeaderboard = leaderboard
        /\ Len(filteredLeaderboard) <= Len(ApplyView(leaderboard, filters, EmptyText))

\* C12 witness: a batch text and a search term in capitals are set; of three
\* entries with a matching batch two remain, one of them kept because
\* "Placement" contains "me".
C12_Witness ==
    /\ mounted
    /\ ~filterPending
    /\ filters.cohortNumber = << "2" >>
    /\ searchTerm = << "M", "E" >>
    /\ Len(leaderboard) = 3
    /\ Len(ApplyView(leaderboard, filters, EmptyText)) = 3
    /\ Len(filteredLeaderboard) = 2
    /\ \E i \in 1..2 : filteredLeaderboard[i].cohort_type = Placement

\* C13 (as stated): a refetch caused by a notification starts only if, when
\* the debounce timeout runs, no fetch is in flight (whatever started it,
\* silent fetches included) and the component is mounted.
C13_RefetchOnlyWhenIdle ==
    [][ nSilentFetch' > nSilentFetch => (FetchesInFlight = 0 /\ mounted) ]_vars

\* C14 (as stated): in every state the mounted component renders, the
\* filtered view is the filter applied to the current dataset with the
\* current criteria and search term.
C14_ViewAlwaysCurrent ==
    mounted => filteredLeaderboard = ApplyView(leaderboard, filters, searchTerm)

\* C15 (as stated): the number shown in the Rank column of a row of the table
\* is the rank the entry has in the canonical dataset.
C15_ShownRankIsCanonical ==
    (mounted /\ ~loading) =>
        \A i \in 1..Len(DisplayedRows) :
            DisplayedRows[i].shownRank = DisplayedRows[i].entry.rank

\* C16: every fetchLeaderboard call that resolves, with rows or with an
\* error, leaves loading false; while the store answers, loading once true
\* becomes false again; and whenever the mounted component has settled with
\* loading false (an error message shown or not) its triggers work: the live
\* channel handler is subscribed with loading false, and Reload starts a fetch.
C16_FetchReturnsToIdle ==
    /\ [][FetchesInFlight' < FetchesInFlight => ~loading']_vars
    /\ (loading ~> ~loading)
    /\ [](( mounted /\ ~loading /\ ~effectsPending ) =>
              /\ isSubscribed
              /\ ~subLoading
              /\ OpsInFlight < MaxInFlight => ENABLED ClickReload)

\* C16 witness: a fetch has failed; the component is at rest with the error
\* message shown, loading false and Reload enabled.
C16_Witness ==
    /\ mounted
    /\ ~loading
    /\ ~effectsPending
    /\ error = "Failed to fetch leaderboard"
    /\ OpsInFlight = 0
    /\ ENABLED ClickReload

\* C17 (as stated): while a fetchLeaderboard(true) call (initial load, Reload)
\* is in flight, loading stays true.
C17_LoadingHeldByLoadFetch == (mounted /\ nLoadFetch > 0) => loading

\* C18 (as stated): at most one updateXPData call is in progress at any time,
\* and refreshing is true whenever one is.
C18_OneCycle ==
    mounted => /\ CyclesInFlight <= 1
               /\ CyclesInFlight > 0 => refreshing

\* C19 (as stated): lastUpdated changes only in a step in which a
\* fetchLeaderboard call resolves with rows, not with an error.
C19_StampOnlyOnSuccess ==
    [][ lastUpdated' # lastUpdated =>
            (FetchesInFlight' < FetchesInFlight /\ ~FetchFailureStep) ]_vars

\* C20 (as stated, for finite runs): when a notification has reached the
\* mounted component and no fetch has started since, the component is not at
\* rest: an effect run, an operation in flight or a timer is pending.  At rest
\* only a new event from outside starts a fetch, so the fetch the claim
\* promises never takes place.
C20_NoChangeLost ==
    (mounted /\ unseenChange) =>
        \/ effectsPending
        \/ OpsInFlight > 0
        \/ debounceTimer # NoTimer
        \/ staleTimer # NoTimer

\* What a change of the filter inputs has to leave alone: the dataset, the
\* loading and refreshing flags, the error message, the timestamp, both
\* timers and the operations in flight.
FilterFrame ==
    << leaderboard, loading, refreshing, error, lastUpdated, debounceTimer,
       staleTimer, inflight >>

\* A render is committed in which no dependency of the subscription effect
\* or of the staleness effect changed, only those of the filter effect.
FilterRenderPending ==
    /\ effectsPending
    /\ filterPending
    /\ subLoading = loading
    /\ StaleDep(leaderboard) = staleKey

\* C21: a step that changes the filter criteria or the search term (Clear All
\* Filters included) changes nothing of FilterFrame and no fetch starts; the
\* effects of the render that follows make the filtered view the filter of
\* the dataset under the new criteria and again change nothing of
\* FilterFrame, nor the criteria.
C21_FilterChangeFrame ==
    [][ /\ (filters' # filters \/ searchTerm' # searchTerm) =>
              /\ UNCHANGED FilterFrame
              /\ FetchesInFlight' = FetchesInFlight
              /\ filteredLeaderboard' = filteredLeaderboard
        /\ FilterRenderPending =>
              /\ UNCHANGED FilterFrame
              /\ UNCHANGED criteria
              /\ filteredLeaderboard' = ApplyView(leaderboard, filters, searchTerm) ]_vars

\* C21 witness: the filter inputs have just been cleared (the view is still
\* the empty one of the criteria before) while a debounce timeout and the
\* staleness timeout are pending and an update cycle is in progress.
C21_Witness ==
    /\ mounted
    /\ FilterRenderPending
    /\ filters = [cohortType |-> EmptyText, cohortNumber |-> EmptyText]
    /\ searchTerm = EmptyText
    /\ filteredLeaderboard = << >>
    /\ Len(leaderboard) > 0
    /\ debounceTimer > 0
    /\ staleTimer > 0
    /\ refreshing

====
